---- MODULE Spec2Model ----
(***************************************************************************)
(* Model of the safe-box credential store (src/src/lib.rs): the SQLite     *)
(* table `main`, the in-memory token map, and the operations of `Safe`.    *)
(*                                                                         *)
(* Granularity.  Every statement that takes a lock is one atomic step:     *)
(* the connection mutex guard in `create`, `update`, `delete` is a         *)
(* temporary that lives for exactly one query, and the token RwLock guard  *)
(* lives for one map operation.  `create` therefore has two steps (SELECT, *)
(* then INSERT) and `update` has two steps (retain on the token map, then  *)
(* UPDATE); every other operation is a single step.                        *)
(*                                                                         *)
(* Return values.  What a call returns is a function of the state it runs  *)
(* in; each is an operator of that state (verify, verify_token,            *)
(* create_check, create_insert, ...), and the actions change only the      *)
(* state the code changes.                                                 *)
(*                                                                         *)
(* Randomness and time.  gen_salt draws any salt.  issue_token draws 64    *)
(* random bytes; a string is taken never to be drawn twice, and `drawn`    *)
(* records the strings drawn so far.  The wall clock may advance or be set *)
(* back between steps; expire_token is modelled with one reading of it.    *)
(* Storage I/O failures and malformed stored hashes are outside the model. *)
(***************************************************************************)
EXTENDS Integers, FiniteSets, Sequences, TLC

\* ---------------------------------------------------------------- bounds
\* Largest reading of the wall clock (SystemTime::now()).
MaxTime == 1

\* ------------------------------------------------------------ value sets
Users == {"alice", "bob"}
Passwords == {"wonderland", "newpass"}
\* Outcomes of gen_salt(): 64 random bytes.
Salts == {"s1", "s2"}
\* Tasks that may be in the middle of a two-step operation.
Callers == {"c1", "c2"}
\* Base64 strings issue_token can draw from getrandom.
Tokens == {"t1", "t2"}
Times == 0..MaxTime
\* Arguments of expire_token.
Durations == 0..MaxTime

\* Option::None of verify_token.
None == "None"

VARIABLES
    db,      \* SafeInst.conn: rows of table main, records [user, phc]
    token,   \* SafeInst.token: token string -> [user, time]
    now,     \* the wall clock read by SystemTime::now()
    drawn,   \* token strings getrandom has produced so far (issue_token)
    pc,      \* per caller: "idle", "create_insert" or "update_exec"
    arg      \* per caller: the `user` argument of the call in progress

vars == <<db, token, now, drawn, pc, arg>>

\* ------------------------------------------------------ password hashing
\* The digest argon2 computes from a password and a salt.
Digest(pass, salt) == <<pass, salt>>

\* argon2::hash_encoded: the encoded string carries the salt and the digest.
hash_encoded(pass, salt) == [salt |-> salt, digest |-> Digest(pass, salt)]

\* Mutant of verify_encoded: the digest comparison is lost and every password
\* is accepted for a well-formed encoded string.
verify_encoded_AnyPass(phc, pass) == phc.digest = phc.digest

\* argon2::verify_encoded: re-derive the digest with the salt read from the
\* encoded string and compare.
verify_encoded(phc, pass) == Digest(pass, phc.salt) = phc.digest

\* ------------------------------------------------------------- SQL table
\* Q_INIT: CREATE TABLE IF NOT EXISTS main (user TEXT PRIMARY KEY, phc TEXT)
\* on a fresh database file.
Q_INIT == {}

\* SELECT ... FROM main WHERE user = ?
SelectUser(rows, user) == {r \in rows : r.user = user}

\* Mutant of PrimaryKeyFree: the table is declared without PRIMARY KEY.
PrimaryKeyFree_NoKey(rows, user) == TRUE

\* The PRIMARY KEY constraint on column user, as checked by an INSERT.
PrimaryKeyFree(rows, user) == SelectUser(rows, user) = {}

\* INSERT INTO main (user, phc) VALUES (?, ?)
InsertRow(rows, user, phc) == rows \cup {[user |-> user, phc |-> phc]}

\* Mutant of UpdateRows: the statement matches no row and the hash stays.
UpdateRows_Lost(rows, user, phc) == rows

\* Mutant of UpdateRows: the statement inserts the row when none matches.
UpdateRows_Upsert(rows, user, phc) ==
    IF \E r \in rows : r.user = user
    THEN {IF r.user = user THEN [r EXCEPT !.phc = phc] ELSE r : r \in rows}
    ELSE rows \cup {[user |-> user, phc |-> phc]}

\* UPDATE main SET phc = ? WHERE user = ?
UpdateRows(rows, user, phc) ==
    {IF r.user = user THEN [r EXCEPT !.phc = phc] ELSE r : r \in rows}

\* Mutant of DeleteRows: the WHERE clause is lost and every row goes.
DeleteRows_NoWhere(rows, user) == {}

\* DELETE FROM main WHERE user = ?
DeleteRows(rows, user) == {r \in rows : r.user # user}

\* ------------------------------------------------------------- token map
\* HashMap::insert (overwrites an existing key).
MapInsert(map, t, v) == [x \in DOMAIN map \cup {t} |-> IF x = t THEN v ELSE map[x]]

\* Mutant of MapRemove: the whole map is cleared instead of one key.
MapRemove_Clear(map, t) == [x \in {} |-> map[x]]

\* HashMap::remove
MapRemove(map, t) == [x \in DOMAIN map \ {t} |-> map[x]]

\* Mutant of KeepOtherUser: the closure's comparison is inverted.
KeepOtherUser_Inverted(entry, user) == entry.user = user

\* The closure of invalidate_user_token: |_, (u, _)| u != user
KeepOtherUser(entry, user) == entry.user # user

\* Mutant of KeepYoung: an Err of duration_since (the entry's time lies after
\* the clock reading) keeps the entry.
KeepYoung_ErrKeeps(entry, clock, duration) ==
    \/ clock < entry.time
    \/ clock - entry.time < duration

\* The closure of expire_token:
\* SystemTime::now().duration_since(*time).is_ok_and(|d| d < duration)
KeepYoung(entry, clock, duration) ==
    /\ clock >= entry.time
    /\ clock - entry.time < duration

\* The map after invalidate_user_token(user): HashMap::retain keeps the
\* entries the closure accepts.
invalidate_user_token(map, user) ==
    [t \in {x \in DOMAIN map : KeepOtherUser(map[x], user)} |-> map[t]]

\* The map after expire_token(duration) with the clock reading `clock`:
\* HashMap::retain keeps the entries the closure accepts.
expire_token(map, clock, duration) ==
    [t \in {x \in DOMAIN map : KeepYoung(map[x], clock, duration)} |-> map[t]]

\* Mutant of invalidate_token: the removal is lost.
invalidate_token_Lost(map, t) == map

\* The map after invalidate_token(t).
invalidate_token(map, t) == MapRemove(map, t)

\* The map after issue_token(user) drew the string t at time clock.
issue_token(map, t, user, clock) == MapInsert(map, t, [user |-> user, time |-> clock])

\* Mutant of verify_token: the lookup also enforces a maximum age.
verify_token_MaxAge(map, t) ==
    IF t \in DOMAIN map /\ now - map[t].time < MaxTime THEN map[t].user ELSE None

\* verify_token: map.get(token).map(|(user, _)| user.clone())
verify_token(map, t) == IF t \in DOMAIN map THEN map[t].user ELSE None

\* ------------------------------------------------------- return values
\* Mutant of verify: a missing user is reported as a wrong password.
verify_MissingIsFalse(rows, user, pass) ==
    LET v == SelectUser(rows, user) IN
    IF Cardinality(v) = 0 THEN "false"
    ELSE IF Cardinality(v) >= 2 THEN "InvalidData"
    ELSE IF verify_encoded((CHOOSE r \in v : TRUE).phc, pass)
         THEN "true" ELSE "false"

\* Mutant of verify: the duplicate arm of the match is lost and the first
\* row is compared.
verify_PickFirst(rows, user, pass) ==
    LET v == SelectUser(rows, user) IN
    IF Cardinality(v) = 0 THEN "UserNotExist"
    ELSE IF verify_encoded((CHOOSE r \in v : TRUE).phc, pass)
         THEN "true" ELSE "false"

\* The value verify(user, pass) returns on the table `rows`: an error kind,
\* or "true" / "false" for Ok(true) / Ok(false).
verify(rows, user, pass) ==
    LET v == SelectUser(rows, user) IN
    IF Cardinality(v) = 0 THEN "UserNotExist"
    ELSE IF Cardinality(v) >= 2 THEN "InvalidData"
    ELSE IF verify_encoded((CHOOSE r \in v : TRUE).phc, pass)
         THEN "true" ELSE "false"

\* Mutant of UserExists: off by one, v.len() > 1.
UserExists_OffByOne(v) == Cardinality(v) > 1

\* create, the test after the SELECT: v.len() > 0
UserExists(v) == Cardinality(v) > 0

\* create, first statement: the early return, or "insert" to go on.
create_check(rows, user) ==
    IF UserExists(SelectUser(rows, user)) THEN "UserAlreadyExist" ELSE "insert"

\* create, second statement: a primary key conflict surfaces as the SQL
\* error of sqlx through `?`.
create_insert(rows, user) ==
    IF PrimaryKeyFree(rows, user) THEN "Ok" ELSE "SQL"

\* update: the UPDATE's row count is not read; the call returns Ok(()).
update_returns(rows, user) == "Ok"

\* delete: the DELETE's row count is not read; the call returns Ok(()).
delete_returns(rows, user) == "Ok"

\* user_cnt: SELECT COUNT(*) FROM main
user_cnt(rows) == Cardinality(rows)

\* ------------------------------------------------------------------ Init
Init ==
    /\ db = Q_INIT
    /\ token = [t \in {} |-> None]
    /\ now = 0
    /\ drawn = {}
    /\ pc = [c \in Callers |-> "idle"]
    /\ arg = [c \in Callers |-> None]

\* --------------------------------------------------------------- actions
\* create, first statement: the existence check.  `pass` is not read before
\* the second statement, so it is bound there.
CreateCheck(c, user) ==
    /\ pc[c] = "idle"
    /\ IF create_check(db, user) = "UserAlreadyExist"
       THEN UNCHANGED <<pc, arg>>
       ELSE /\ pc' = [pc EXCEPT ![c] = "create_insert"]
            /\ arg' = [arg EXCEPT ![c] = user]
    /\ UNCHANGED <<db, token, now, drawn>>

\* create, second statement: hash with a fresh salt and INSERT.
CreateInsert(c, pass, salt) ==
    /\ pc[c] = "create_insert"
    /\ db' = IF create_insert(db, arg[c]) = "Ok"
             THEN InsertRow(db, arg[c], hash_encoded(pass, salt))
             ELSE db
    /\ pc' = [pc EXCEPT ![c] = "idle"]
    /\ arg' = [arg EXCEPT ![c] = None]
    /\ UNCHANGED <<token, now, drawn>>

\* Mutant of Verify: a successful verify issues a token, as the stale doc
\* comment "Return a new token if successful" describes.
Verify_IssuesToken(user, pass) ==
    IF verify(db, user, pass) = "true"
    THEN /\ \E t \in Tokens \ drawn :
               /\ drawn' = drawn \cup {t}
               /\ token' = issue_token(token, t, user, now)
         /\ UNCHANGED <<db, now, pc, arg>>
    ELSE UNCHANGED vars

\* verify: SELECT and compare under one connection guard; nothing is written.
Verify(user, pass) ==
    /\ verify(db, user, pass) \in {"true", "false", "UserNotExist", "InvalidData"}
    /\ UNCHANGED vars

\* update, first statement: self.invalidate_user_token(user).  `new_pass` is
\* not read before the second statement, so it is bound there.
UpdateInvalidate(c, user) ==
    /\ pc[c] = "idle"
    /\ token' = invalidate_user_token(token, user)
    /\ pc' = [pc EXCEPT ![c] = "update_exec"]
    /\ arg' = [arg EXCEPT ![c] = user]
    /\ UNCHANGED <<db, now, drawn>>

\* update, second statement: hash with a fresh salt and UPDATE; returns Ok.
UpdateExec(c, new_pass, salt) ==
    /\ pc[c] = "update_exec"
    /\ db' = UpdateRows(db, arg[c], hash_encoded(new_pass, salt))
    /\ pc' = [pc EXCEPT ![c] = "idle"]
    /\ arg' = [arg EXCEPT ![c] = None]
    /\ UNCHANGED <<token, now, drawn>>

\* Mutant of Delete: deleting a user also removes the user's tokens.
Delete_Logout(user) ==
    /\ db' = DeleteRows(db, user)
    /\ token' = invalidate_user_token(token, user)
    /\ UNCHANGED <<now, drawn, pc, arg>>

\* delete: one DELETE statement; returns Ok.
Delete(user) ==
    /\ db' = DeleteRows(db, user)
    /\ UNCHANGED <<token, now, drawn, pc, arg>>

\* user_cnt: nothing is written.
UserCnt ==
    /\ user_cnt(db) \in Nat
    /\ UNCHANGED vars

\* issue_token: 64 bytes from getrandom, never a string drawn before; the
\* string t is what the call returns.
IssueToken(user, t) ==
    /\ t \in Tokens \ drawn
    /\ drawn' = drawn \cup {t}
    /\ token' = issue_token(token, t, user, now)
    /\ UNCHANGED <<db, now, pc, arg>>

InvalidateToken(t) ==
    /\ token' = invalidate_token(token, t)
    /\ UNCHANGED <<db, now, drawn, pc, arg>>

InvalidateUserToken(user) ==
    /\ token' = invalidate_user_token(token, user)
    /\ UNCHANGED <<db, now, drawn, pc, arg>>

ExpireToken(duration) ==
    /\ token' = expire_token(token, now, duration)
    /\ UNCHANGED <<db, now, drawn, pc, arg>>

\* verify_token: a lookup under the read lock; nothing is written.
VerifyToken(t) ==
    /\ verify_token(token, t) \in Users \cup {None}
    /\ UNCHANGED vars

\* The wall clock advances.
Tick ==
    /\ now < MaxTime
    /\ now' = now + 1
    /\ UNCHANGED <<db, token, drawn, pc, arg>>

\* SystemTime is not monotonic: the wall clock is set back.
ClockBack ==
    /\ \E earlier \in Times : earlier < now /\ now' = earlier
    /\ UNCHANGED <<db, token, drawn, pc, arg>>

Next ==
    \/ \E c \in Callers, u \in Users : CreateCheck(c, u)
    \/ \E c \in Callers, p \in Passwords, s \in Salts : CreateInsert(c, p, s)
    \/ \E u \in Users, p \in Passwords : Verify(u, p)
    \/ \E c \in Callers, u \in Users : UpdateInvalidate(c, u)
    \/ \E c \in Callers, p \in Passwords, s \in Salts : UpdateExec(c, p, s)
    \/ \E u \in Users : Delete(u)
    \/ UserCnt
    \/ \E u \in Users, t \in Tokens : IssueToken(u, t)
    \/ \E t \in Tokens : InvalidateToken(t)
    \/ \E u \in Users : InvalidateUserToken(u)
    \/ \E d \in Durations : ExpireToken(d)
    \/ \E t \in Tokens : VerifyToken(t)
    \/ Tick
    \/ ClockBack

Spec == Init /\ [][Next]_vars

\* ================================================================ claims
\* A step that completes the UPDATE statement of update(user, _).
UpdateCompletes(c, user) ==
    /\ pc[c] = "update_exec"
    /\ arg[c] = user
    /\ pc'[c] = "idle"

\* A step in which some operation that removes entries from the token map
\* runs: invalidate_token, invalidate_user_token, expire_token, or the
\* first statement of update.
RemovingStep ==
    \/ \E t \in Tokens : InvalidateToken(t)
    \/ \E u \in Users : InvalidateUserToken(u)
    \/ \E d \in Durations : ExpireToken(d)
    \/ \E c \in Callers, u \in Users : UpdateInvalidate(c, u)

\* C1: the token t returned by issue_token(u) is accepted by verify_token as
\* u, and stays accepted as u across every step in which no removing
\* operation runs; in every state, the map that invalidate_token(t) leaves
\* makes verify_token(t) absent, and a token that has become absent stays
\* absent.
C1_IssueVerifyInvalidate ==
    /\ [](\A t \in Tokens :
            verify_token(invalidate_token(token, t), t) = None)
    /\ [][/\ \A u \in Users, t \in Tokens :
               IssueToken(u, t) => verify_token(token', t) = u
          /\ \A t \in DOMAIN token :
               ~RemovingStep => verify_token(token', t) = verify_token(token, t)
          /\ \A t \in drawn :
               verify_token(token, t) = None => verify_token(token', t) = None
         ]_vars

\* C1 witness: both strings were issued; t1 has been removed and is absent,
\* t2 is still accepted as alice.
C1_Witness ==
    /\ drawn = {"t1", "t2"}
    /\ verify_token(token, "t1") = None
    /\ verify_token(token, "t2") = "alice"

\* C2: when create(u, p) returns Ok, verify(u, p) is true and verify(u, p')
\* is false for every other p'; and that stays so across every step that is
\* not the UPDATE of an update(u, _) or a delete(u).
C2_CreateThenVerify ==
    [][/\ \A c \in Callers, p \in Passwords, s \in Salts :
            (CreateInsert(c, p, s) /\ create_insert(db, arg[c]) = "Ok") =>
                /\ verify(db', arg[c], p) = "true"
                /\ \A q \in Passwords \ {p} : verify(db', arg[c], q) = "false"
       /\ \A u \in Users, p \in Passwords :
            (/\ verify(db, u, p) = "true"
             /\ \A q \in Passwords \ {p} : verify(db, u, q) = "false"
             /\ ~(\E c \in Callers : UpdateCompletes(c, u))
             /\ ~Delete(u)) =>
                /\ verify(db', u, p) = "true"
                /\ \A q \in Passwords \ {p} : verify(db', u, q) = "false"
      ]_vars

\* C2 witness: alice was created with "wonderland"; her record accepts it
\* and rejects "newpass".
C2_Witness ==
    /\ Cardinality(SelectUser(db, "alice")) = 1
    /\ verify(db, "alice", "wonderland") = "true"
    /\ verify(db, "alice", "newpass") = "false"

\* C3 (as claimed): in the state in which update(u, _) completes, the token
\* map holds no token owned by u.
C3_NoTokenAtUpdateCompletion ==
    [][\A c \in Callers, u \in Users :
            UpdateCompletes(c, u) =>
                \A t \in DOMAIN token' : token'[t].user # u
      ]_vars

\* C4: when the UPDATE of update(u, p2) runs on a table that holds a record
\* of u, then afterwards verify(u, p2) is true and verify(u, p1) is false
\* for every other password p1, the old one included.
C4_UpdateThenVerify ==
    [][\A c \in Callers, p2 \in Passwords, s \in Salts :
            (UpdateExec(c, p2, s) /\ SelectUser(db, arg[c]) # {}) =>
                /\ verify(db', arg[c], p2) = "true"
                /\ \A p1 \in Passwords \ {p2} : verify(db', arg[c], p1) = "false"
      ]_vars

\* C5: a create(u, _) call whose existence check finds a record of u returns
\* UserAlreadyExist and changes nothing: the table, the token map and every
\* caller's position are as before.
C5_CreateExisting ==
    [][\A c \in Callers, u \in Users :
            (CreateCheck(c, u) /\ SelectUser(db, u) # {}) =>
                /\ create_check(db, u) = "UserAlreadyExist"
                /\ UNCHANGED vars
      ]_vars

\* C5 witness: a record of alice exists while a caller is free to call
\* create("alice", _), which returns UserAlreadyExist there.
C5_Witness ==
    /\ SelectUser(db, "alice") # {}
    /\ pc["c1"] = "idle"
    /\ create_check(db, "alice") = "UserAlreadyExist"

\* C4 witness: the UPDATE of update("alice", _) is about to run on a table
\* in which alice's record accepts "wonderland".
C4_Witness ==
    /\ pc["c1"] = "update_exec"
    /\ arg["c1"] = "alice"
    /\ verify(db, "alice", "wonderland") = "true"

\* C6: verify(u, p) returns UserNotExist for every password p whenever the
\* table holds no record of u, whether u was never created or was deleted.
C6_VerifyMissingUser ==
    \A u \in Users, p \in Passwords :
        SelectUser(db, u) = {} => verify(db, u, p) = "UserNotExist"

\* C6 witness: bob has a record, alice has none, and verify("alice", _)
\* returns UserNotExist.
C6_Witness ==
    /\ SelectUser(db, "bob") # {}
    /\ SelectUser(db, "alice") = {}
    /\ verify(db, "alice", "wonderland") = "UserNotExist"

\* C7: the table holds at most one record per username.
C7_OneRecordPerUser ==
    \A u \in Users : Cardinality(SelectUser(db, u)) <= 1

\* C7 witness: alice has a record while another create("alice", _) that
\* passed its existence check is still about to INSERT.
C7_Witness ==
    /\ Cardinality(SelectUser(db, "alice")) = 1
    /\ \E c \in Callers : pc[c] = "create_insert" /\ arg[c] = "alice"

\* The age of a token map entry at clock reading `clock`.
Age(entry, clock) == clock - entry.time

\* C8 (as claimed): expire_token(d) removes exactly the tokens whose age
\* exceeds d and leaves every other token in the map, unchanged.
C8_ExpireExactlyOlder ==
    [][\A d \in Durations :
            ExpireToken(d) =>
                \A t \in DOMAIN token :
                    IF Age(token[t], now) > d
                    THEN t \notin DOMAIN token'
                    ELSE t \in DOMAIN token' /\ token'[t] = token[t]
      ]_vars

\* C9: invalidate_user_token(u) removes every token owned by u and leaves
\* every token of another owner in the map with its owner and issue time,
\* adds no token, and changes nothing else.
C9_InvalidateUserFrame ==
    [][\A u \in Users :
            InvalidateUserToken(u) =>
                /\ \A t \in DOMAIN token' : token'[t].user # u
                /\ \A t \in DOMAIN token :
                      token[t].user # u =>
                          t \in DOMAIN token' /\ token'[t] = token[t]
                /\ DOMAIN token' \subseteq DOMAIN token
                /\ UNCHANGED <<db, now, drawn, pc, arg>>
      ]_vars

\* C9 witness: both strings were issued, alice's was removed and bob's is
\* still in the map.
C9_Witness ==
    /\ drawn = {"t1", "t2"}
    /\ DOMAIN token = {"t2"}
    /\ token["t2"].user = "bob"

\* C10: verify_token(t) changes nothing, the token map included, and in
\* every state it returns the owner of every token that is in the map,
\* whatever the token's age.
C10_VerifyTokenPureLookup ==
    /\ [](\A t \in DOMAIN token : verify_token(token, t) = token[t].user)
    /\ [][\A t \in Tokens : VerifyToken(t) => UNCHANGED vars]_vars

\* C10 witness: a token so old that expire_token(d) would remove it for
\* every d is still in the map and still accepted as its owner.
C10_Witness ==
    \E t \in DOMAIN token :
        /\ Age(token[t], now) >= MaxTime
        /\ \A d \in Durations : t \notin DOMAIN expire_token(token, now, d)
        /\ verify_token(token, t) = token[t].user

\* C11: invalidate_token(t) on a map that does not hold t leaves the map as
\* it is; applying it twice gives the same map as applying it once; and it
\* never removes or changes the entry of another token.
C11_InvalidateIdempotent ==
    \A t \in Tokens :
        LET once == invalidate_token(token, t) IN
        /\ t \notin DOMAIN token => once = token
        /\ invalidate_token(once, t) = once
        /\ \A x \in DOMAIN token \ {t} : x \in DOMAIN once /\ once[x] = token[x]
        /\ DOMAIN once = DOMAIN token \ {t}

\* C11 witness: t1 was issued and is no longer in the map, so
\* invalidate_token("t1") finds nothing, while bob's t2 is in the map.
C11_Witness ==
    /\ "t1" \in drawn
    /\ "t1" \notin DOMAIN token
    /\ verify_token(token, "t2") = "bob"

\* C12: delete(u) takes no password and returns Ok; the table it leaves
\* holds no record of u and every other user's records as before, verify(u,
\* p) returns UserNotExist on it for every p, and a create(u, _) run on it
\* passes the existence check and its INSERT succeeds.  The step changes
\* nothing but the table.
C12_DeleteUnconditional ==
    /\ [](\A u \in Users :
            LET after == DeleteRows(db, u) IN
            /\ delete_returns(db, u) = "Ok"
            /\ SelectUser(after, u) = {}
            /\ \A o \in Users \ {u} : SelectUser(after, o) = SelectUser(db, o)
            /\ \A p \in Passwords : verify(after, u, p) = "UserNotExist"
            /\ create_check(after, u) = "insert"
            /\ create_insert(after, u) = "Ok")
    /\ [][\A u \in Users :
            Delete(u) => /\ db' = DeleteRows(db, u)
                         /\ UNCHANGED <<token, now, drawn, pc, arg>>
         ]_vars

\* C12 witness: alice and bob both have a record, so delete("alice") has a
\* record to remove and another one to leave alone.
C12_Witness ==
    /\ Cardinality(SelectUser(db, "alice")) = 1
    /\ Cardinality(SelectUser(db, "bob")) = 1
    /\ \A c \in Callers : pc[c] = "idle"

\* C13 (as claimed): a create that has passed its existence check is never
\* overtaken before its INSERT, so every create returns Ok or
\* UserAlreadyExist: when two creates of one username run concurrently, the
\* one that does not succeed fails with UserAlreadyExist and no other kind.
C13_CreateRaceOutcome ==
    [][\A c \in Callers :
            (pc[c] = "create_insert" /\ pc'[c] = "idle") =>
                create_insert(db, arg[c]) \in {"Ok", "UserAlreadyExist"}
      ]_vars

\* ------------------------------------------------------- lock discipline
\* The same callers at the granularity of lock instructions.  Under
\* LockSpec, pc[c] is the operation caller c is running ("idle" when none)
\* and arg[c] is the index of its next lock instruction; the table and the
\* token map are left alone, since the locks taken do not depend on them.
\* "conn" is SafeInst.conn (the async mutex); "write" and "read" are the two
\* modes of the RwLock SafeInst.token.
Acq(lock) == <<"acq", lock>>

Rel(lock) == <<"rel", lock>>

\* create: the guard of the SELECT statement, then the guard of the INSERT
\* statement; each is a temporary dropped at the end of its statement.
create_locks == <<Acq("conn"), Rel("conn"), Acq("conn"), Rel("conn")>>

\* verify: `let mut conn = self.0.conn.lock().await`, dropped at return.
verify_locks == <<Acq("conn"), Rel("conn")>>

\* Mutant of update_locks: the write guard of the token map is kept in a
\* binding that lives to the end of update.
update_locks_Nested == <<Acq("write"), Acq("conn"), Rel("conn"), Rel("write")>>

\* update: invalidate_user_token takes and drops the write guard, then the
\* UPDATE statement takes and drops the connection guard.
update_locks == <<Acq("write"), Rel("write"), Acq("conn"), Rel("conn")>>

\* delete and user_cnt: the guard of their one statement.
delete_locks == <<Acq("conn"), Rel("conn")>>

user_cnt_locks == <<Acq("conn"), Rel("conn")>>

\* issue_token, invalidate_token, invalidate_user_token, expire_token:
\* self.0.token.write()
issue_token_locks == <<Acq("write"), Rel("write")>>

invalidate_token_locks == <<Acq("write"), Rel("write")>>

invalidate_user_token_locks == <<Acq("write"), Rel("write")>>

expire_token_locks == <<Acq("write"), Rel("write")>>

\* verify_token: self.0.token.read()
verify_token_locks == <<Acq("read"), Rel("read")>>

Ops ==
    {"create", "verify", "update", "delete", "user_cnt", "issue_token",
     "invalidate_token", "invalidate_user_token", "expire_token", "verify_token"}

LockCode(op) ==
    CASE op = "create" -> create_locks
      [] op = "verify" -> verify_locks
      [] op = "update" -> update_locks
      [] op = "delete" -> delete_locks
      [] op = "user_cnt" -> user_cnt_locks
      [] op = "issue_token" -> issue_token_locks
      [] op = "invalidate_token" -> invalidate_token_locks
      [] op = "invalidate_user_token" -> invalidate_user_token_locks
      [] op = "expire_token" -> expire_token_locks
      [] op = "verify_token" -> verify_token_locks

\* The locks caller c holds: acquired by an instruction it has executed and
\* not released by a later one it has executed.
Held(c) ==
    IF pc[c] = "idle" THEN {}
    ELSE LET code == LockCode(pc[c]) IN
         {l \in {"conn", "write", "read"} :
            \E i \in 1..(arg[c] - 1) :
                /\ code[i] = Acq(l)
                /\ \A j \in (i + 1)..(arg[c] - 1) : code[j] # Rel(l)}

\* async_mutex::Mutex and std::sync::RwLock: the mutex and the write mode
\* are exclusive, the read mode is shared among readers.
Available(lock) ==
    CASE lock = "conn" -> \A o \in Callers : "conn" \notin Held(o)
      [] lock = "write" -> \A o \in Callers : Held(o) \cap {"write", "read"} = {}
      [] lock = "read" -> \A o \in Callers : "write" \notin Held(o)

\* A caller starts an operation.
LockCall(c, op) ==
    /\ pc[c] = "idle"
    /\ pc' = [pc EXCEPT ![c] = op]
    /\ arg' = [arg EXCEPT ![c] = 1]
    /\ UNCHANGED <<db, token, now, drawn>>

\* A caller executes its next lock instruction; an acquisition waits until
\* the lock is available.  After the last instruction the call returns.
LockStep(c) ==
    /\ pc[c] # "idle"
    /\ LET code == LockCode(pc[c])
           ins == code[arg[c]]
       IN /\ ins[1] = "acq" => Available(ins[2])
          /\ IF arg[c] = Len(code)
             THEN /\ pc' = [pc EXCEPT ![c] = "idle"]
                  /\ arg' = [arg EXCEPT ![c] = None]
             ELSE /\ arg' = [arg EXCEPT ![c] = arg[c] + 1]
                  /\ UNCHANGED pc
    /\ UNCHANGED <<db, token, now, drawn>>

\* create returns UserAlreadyExist after its SELECT, before the INSERT.
CreateReturnEarly(c) ==
    /\ pc[c] = "create"
    /\ arg[c] = 3
    /\ pc' = [pc EXCEPT ![c] = "idle"]
    /\ arg' = [arg EXCEPT ![c] = None]
    /\ UNCHANGED <<db, token, now, drawn>>

LockNext ==
    \/ \E c \in Callers, op \in Ops : LockCall(c, op)
    \/ \E c \in Callers : LockStep(c)
    \/ \E c \in Callers : CreateReturnEarly(c)

LockSpec == Init /\ [][LockNext]_vars

\* C14: no caller ever holds the connection lock together with the token
\* map lock (in either mode), and whenever some operation is in progress,
\* some operation in progress can execute its next instruction: no set of
\* callers waits on each other.
C14_LockDiscipline ==
    /\ \A c \in Callers :
          ~("conn" \in Held(c) /\ Held(c) \cap {"write", "read"} # {})
    /\ (\E c \in Callers : pc[c] # "idle") =>
          \E c \in Callers : pc[c] # "idle" /\ ENABLED LockStep(c)

\* C14 witness: c1 is inside update holding the connection lock, having
\* released the token map lock, which c2 now holds inside issue_token.
C14_Witness ==
    /\ pc["c1"] = "update"
    /\ Held("c1") = {"conn"}
    /\ pc["c2"] = "issue_token"
    /\ Held("c2") = {"write"}

\* ------------------------------------------------ tables found on disk
\* Safe::new opens the file it is given; CREATE TABLE IF NOT EXISTS leaves a
\* table main that is already there as it is, with whatever rows and
\* constraints it has.  TableSpec starts from any such table, duplicate
\* usernames included, and runs the operations that read or rewrite rows.
StoredRows ==
    {[user |-> u, phc |-> hash_encoded(p, s)] :
        u \in Users, p \in Passwords, s \in Salts}

TableInit ==
    /\ db \in SUBSET StoredRows
    /\ token = [t \in {} |-> None]
    /\ now = 0
    /\ drawn = {}
    /\ pc = [c \in Callers |-> "idle"]
    /\ arg = [c \in Callers |-> None]

TableNext ==
    \/ \E u \in Users, p \in Passwords : Verify(u, p)
    \/ \E c \in Callers, u \in Users : UpdateInvalidate(c, u)
    \/ \E c \in Callers, p \in Passwords, s \in Salts : UpdateExec(c, p, s)
    \/ \E u \in Users : Delete(u)

TableSpec == TableInit /\ [][TableNext]_vars

\* C15: verify(u, p) goes by the number of rows matching u: none gives
\* UserNotExist; more than one gives InvalidData for every p, whether or not
\* any of the rows accepts p; exactly one gives "true" or "false" as that
\* row's hash accepts p or not.
C15_VerifyByRowCount ==
    \A u \in Users, p \in Passwords :
        LET v == SelectUser(db, u)
            n == Cardinality(v)
        IN /\ n = 0 => verify(db, u, p) = "UserNotExist"
           /\ n >= 2 => verify(db, u, p) = "InvalidData"
           /\ n = 1 => \A r \in v :
                 verify(db, u, p) =
                     IF verify_encoded(r.phc, p) THEN "true" ELSE "false"

\* C15 witness: two rows of alice, both accepting "wonderland", and verify
\* returns InvalidData, while bob's single row gives a boolean.
C15_Witness ==
    /\ SelectUser(db, "alice") =
          {[user |-> "alice", phc |-> hash_encoded("wonderland", s)] : s \in Salts}
    /\ verify(db, "alice", "wonderland") = "InvalidData"
    /\ Cardinality(SelectUser(db, "bob")) = 1
    /\ verify(db, "bob", "newpass") = "true"

\* C16 (as claimed): update(u, _) and delete(u) run on a table with more
\* than one row of u return InvalidData and leave the table as it is.
C16_UpdateDeleteDuplicates ==
    [][/\ \A c \in Callers, p \in Passwords, s \in Salts :
            (UpdateExec(c, p, s) /\ Cardinality(SelectUser(db, arg[c])) >= 2) =>
                /\ update_returns(db, arg[c]) = "InvalidData"
                /\ db' = db
       /\ \A u \in Users :
            (Delete(u) /\ Cardinality(SelectUser(db, u)) >= 2) =>
                /\ delete_returns(db, u) = "InvalidData"
                /\ db' = db
      ]_vars

C18_DeleteKeepsTokens ==
    /\ [](\A u \in Users, t \in Tokens \ drawn :
              verify_token(issue_token(token, t, u, now), t) = u)
    /\ [][\A u \in Users :
              Delete(u) =>
                  /\ token' = token
                  /\ \A t \in Tokens : verify_token(token', t) = verify_token(token, t)
         ]_vars
    /\ [][\A u \in Users, t \in Tokens :
              IssueToken(u, t) => verify_token(token', t) = u]_vars

\* C18 witness: alice has no record and holds a valid token, while bob has
\* a record.
C18_Witness ==
    /\ SelectUser(db, "alice") = {}
    /\ SelectUser(db, "bob") # {}
    /\ verify_token(token, "t1") = "alice"
    /\ \A c \in Callers : pc[c] = "idle"

\* C19: update(u, p) for a u without a record returns Ok, leaves the table
\* as it is (verify(u, p) is still UserNotExist), and its first statement
\* leaves no token of u in the map.
C19_UpdateMissingUser ==
    /\ [](\A u \in Users, p \in Passwords, s \in Salts :
              SelectUser(db, u) = {} =>
                  /\ update_returns(db, u) = "Ok"
                  /\ UpdateRows(db, u, hash_encoded(p, s)) = db
                  /\ verify(UpdateRows(db, u, hash_encoded(p, s)), u, p) = "UserNotExist")
    /\ [][\A c \in Callers, p \in Passwords, s \in Salts :
              (UpdateExec(c, p, s) /\ SelectUser(db, arg[c]) = {}) =>
                  /\ db' = db
                  /\ verify(db', arg[c], p) = "UserNotExist"
         ]_vars
    /\ [][\A c \in Callers, u \in Users :
              UpdateInvalidate(c, u) =>
                  \A t \in DOMAIN token' : token'[t].user # u
         ]_vars

\* C19 witness: update("alice", _) is between its two statements, alice has
\* no record, her token is gone and bob's is still in the map.
C19_Witness ==
    /\ pc["c1"] = "update_exec"
    /\ arg["c1"] = "alice"
    /\ SelectUser(db, "alice") = {}
    /\ drawn = {"t1", "t2"}
    /\ DOMAIN token = {"t2"}
    /\ token["t2"].user = "bob"

====
